---- MODULE Spec2Model ----
(***************************************************************************)
(* A model of dcg (docker-compose-genie): the persisted registry of        *)
(* deployments (~/.dcg/settings.yaml), the manifest locator, and the       *)
(* command handlers of dcg/commands.py with the helpers of dcg/utils.py.   *)
(*                                                                         *)
(* An invocation of the CLI is one action of Spec: the process loads the   *)
(* registry, runs the handler to its end (or to the exception that ends    *)
(* it) and exits.  What the invocation did is kept in `log`, in order: the *)
(* loads and saves of the settings file, the external processes run, and   *)
(* the lines printed.  SpecConc splits add and remove at their load and    *)
(* their save, for two invocations that race on the settings file.         *)
(***************************************************************************)
EXTENDS Integers, Sequences, FiniteSets, TLC

VARIABLES
    settings,   \* the settings file: whether it exists, and its 'deployments' list
    files,      \* the filesystem: the manifest files present in each directory
    cmd,        \* the last invocation: command, arguments and options
    log,        \* what the last invocation did, in order
    exc,        \* the exception that ended the last invocation, or "none"
    pc,         \* SpecConc: where each racing invocation stands
    local       \* SpecConc: each racing invocation's arguments and loaded list

vars == <<settings, files, cmd, log, exc, pc, local>>

----------------------------------------------------------------------------
(* Bounds of the model. *)

NumNames == 2          \* deployment names the user may type
NumDirs == 2           \* directories the user may type
MaxContainers == 2     \* container rows `docker compose ps` may list

AllNames == <<"nginx", "plex", "radarr", "sonarr">>     \* in alphabetical order
AllDirs == <<"/opt/apps/a", "/opt/apps/b", "/opt/apps/c", "/opt/apps/d">>
AllContainers == <<"app-1", "db-1", "web-1", "worker-1">>

Names == {AllNames[i] : i \in 1..NumNames}
Dirs == {AllDirs[i] : i \in 1..NumDirs}
Procs == {"p", "q"}

\* exit status of an external process: success, failure
ExitCodes == {0, 1}

----------------------------------------------------------------------------
(* Entries of the log. *)

Load == [kind |-> "load", what |-> "settings.yaml", arg |-> "", rc |-> 0]
Save == [kind |-> "save", what |-> "settings.yaml", arg |-> "", rc |-> 0]
Echo(msg, arg) == [kind |-> "echo", what |-> msg, arg |-> arg, rc |-> 0]
Run(verb, arg, rc) == [kind |-> "run", what |-> verb, arg |-> arg, rc |-> rc]
\* an external process run with capture_output=True, and what it printed
RunOut(verb, arg, rc, stdout) ==
    [kind |-> "run", what |-> verb, arg |-> arg, rc |-> rc, stdout |-> stdout]

\* the entries of a log that are external processes
Runs(l) == SelectSeq(l, LAMBDA e : e.kind = "run")
Verbs(l) == [i \in 1..Len(Runs(l)) |-> Runs(l)[i].what]
Has(l, e) == \E i \in 1..Len(l) : l[i] = e
Count(l, kind) == Len(SelectSeq(l, LAMBDA e : e.kind = kind))

----------------------------------------------------------------------------
(* dcg/utils.py *)

\* A deployment {name: {"file_path": file_path}}: a mapping with one key.
Deployment(name, file_path) == [name |-> name, file_path |-> file_path]

load_deployments ==
    IF settings.exists THEN settings.deployments ELSE <<>>

\* A variant of save_deployments that opens the file to append: what it
\* writes follows what the file holds
save_deployments_append(deployments) ==
    [exists |-> TRUE, deployments |-> load_deployments \o deployments]

\* open(SETTINGS_FILE, "w"): the file is rewritten whole
save_deployments(deployments) ==
    [exists |-> TRUE, deployments |-> deployments]

NoFile == "None"

get_compose_file_path(file_path) ==
    IF file_path \in DOMAIN files /\ "docker-compose.yaml" \in files[file_path]
    THEN file_path \o "/docker-compose.yaml"
    ELSE IF file_path \in DOMAIN files /\ "docker-compose.yml" \in files[file_path]
    THEN file_path \o "/docker-compose.yml"
    ELSE NoFile

\* start_deployment's log; rc is the exit status of `up -d`
start_deployment(name, file_path, rc) ==
    LET compose_file == get_compose_file_path(file_path) IN
    <<Echo("Attempting to start", name)>> \o
    (IF compose_file # NoFile
     THEN <<Run("up -d", compose_file, rc), Echo("started", name)>>
     ELSE <<Echo("No docker-compose file found", file_path)>>)

\* stop_deployment's log; rc is the exit status of `down`
stop_deployment(name, file_path, rc) ==
    LET compose_file == get_compose_file_path(file_path) IN
    IF compose_file # NoFile
    THEN <<Run("down", compose_file, rc), Echo("stopped", name)>>
    ELSE <<Echo("No docker-compose file found", file_path)>>

----------------------------------------------------------------------------
(* dcg/commands.py: add and remove *)

Cmd(op, name, file_path, flags) ==
    [op |-> op, name |-> name, file_path |-> file_path, flags |-> flags]

\* deployment.get(name): the value under name, which is a non-empty mapping
\* ({"file_path": ...}) and so true, or None, which is false
GetTruthy(deployment, name) == deployment.name = name

\* name in deployment
In(name, deployment) == deployment.name = name

\* A variant of AddExists that looks at the last deployment only
AddExistsLastOnly(deployments, name) ==
    deployments # <<>> /\ GetTruthy(deployments[Len(deployments)], name)

\* any(deployment.get(name) for deployment in deployments)
AddExists(deployments, name) ==
    \E i \in 1..Len(deployments) : GetTruthy(deployments[i], name)

\* A variant of FindDeployment that keeps the loop variable when the loop ends
\* without a break: the last deployment
FindDeploymentLoopVar(deployments, name) ==
    IF \E i \in 1..Len(deployments) : In(name, deployments[i])
    THEN CHOOSE i \in 1..Len(deployments) :
            /\ In(name, deployments[i])
            /\ \A j \in 1..(i-1) : ~In(name, deployments[j])
    ELSE Len(deployments)

\* the index of the first deployment with `name in deployment`, 0 when the
\* loop ends without a break
FindDeployment(deployments, name) ==
    IF \E i \in 1..Len(deployments) : In(name, deployments[i])
    THEN CHOOSE i \in 1..Len(deployments) :
            /\ In(name, deployments[i])
            /\ \A j \in 1..(i-1) : ~In(name, deployments[j])
    ELSE 0

\* list.remove(x): without the first element equal to x
ListRemove(deployments, x) ==
    LET i == CHOOSE i \in 1..Len(deployments) :
                /\ deployments[i] = x
                /\ \A j \in 1..(i-1) : deployments[j] # x
    IN  [k \in 1..(Len(deployments)-1) |->
            IF k < i THEN deployments[k] ELSE deployments[k+1]]

add(name, file_path, start, rc) ==
    LET deployments == load_deployments IN
    /\ cmd' = Cmd("add", name, file_path, IF start THEN {"start"} ELSE {})
    /\ exc' = "none"
    /\ IF AddExists(deployments, name)
       THEN /\ log' = <<Load, Echo("already exists", name)>>
            /\ settings' = settings
       ELSE /\ settings' = save_deployments(
                               Append(deployments, Deployment(name, file_path)))
            /\ log' = <<Load, Save, Echo("added", name)>> \o
                      (IF start THEN start_deployment(name, file_path, rc)
                       ELSE <<>>)
    /\ UNCHANGED <<files, pc, local>>

\* A variant of remove that gives up when `down` exits non-zero
remove_checked(name, stop, rc) ==
    LET deployments == load_deployments
        i == FindDeployment(deployments, name)
        stopped == IF stop
                   THEN stop_deployment(name, deployments[i].file_path, rc)
                   ELSE <<>>
    IN
    /\ cmd' = Cmd("remove", name, "", IF stop THEN {"stop"} ELSE {})
    /\ IF i # 0
       THEN IF stop /\ rc # 0 /\ Len(stopped) = 2
            THEN /\ log' = <<Load, stopped[1]>>
                 /\ exc' = "CalledProcessError"
                 /\ settings' = settings
            ELSE /\ settings' = save_deployments(
                                    ListRemove(deployments, deployments[i]))
                 /\ log' = <<Load>> \o stopped \o <<Save, Echo("removed", name)>>
                 /\ exc' = "none"
       ELSE /\ log' = <<Load, Echo("not found", name)>>
            /\ exc' = "none"
            /\ settings' = settings
    /\ UNCHANGED <<files, pc, local>>

remove(name, stop, rc) ==
    LET deployments == load_deployments
        i == FindDeployment(deployments, name)
    IN
    /\ cmd' = Cmd("remove", name, "", IF stop THEN {"stop"} ELSE {})
    /\ exc' = "none"
    /\ IF i # 0
       THEN /\ settings' = save_deployments(ListRemove(deployments, deployments[i]))
            /\ log' = <<Load>> \o
                      (IF stop
                       THEN stop_deployment(name, deployments[i].file_path, rc)
                       ELSE <<>>) \o
                      <<Save, Echo("removed", name)>>
       ELSE /\ log' = <<Load, Echo("not found", name)>>
            /\ settings' = settings
    /\ UNCHANGED <<files, pc, local>>

----------------------------------------------------------------------------
(* dcg/commands.py: update, up, down, restart *)

\* A variant of ConflictingOptions that lets every combination through
ConflictingOptionsUnchecked(start, restart) == FALSE

\* if start and restart: ctx.fail(...)
ConflictingOptions(start, restart) == start /\ restart

Flags(start, restart) ==
    (IF start THEN {"start"} ELSE {}) \cup (IF restart THEN {"restart"} ELSE {})

\* A variant of update_compose that stops when pull exits non-zero
update_compose_checked(name, file_path, compose_file, start, restart, rcs) ==
    <<Run("pull", compose_file, rcs[1])>> \o
    (IF rcs[1] # 0
     THEN <<>>
     ELSE IF restart
     THEN stop_deployment(name, file_path, rcs[2]) \o
          start_deployment(name, file_path, rcs[3])
     ELSE IF start
     THEN start_deployment(name, file_path, rcs[3])
     ELSE <<Echo("updated without starting or restarting", name)>>)

\* What update does once the manifest is found: pull, then the modifier.
\* rcs are the exit statuses of pull, down and up -d.
update_compose(name, file_path, compose_file, start, restart, rcs) ==
    <<Run("pull", compose_file, rcs[1])>> \o
    (IF restart
     THEN stop_deployment(name, file_path, rcs[2]) \o
          start_deployment(name, file_path, rcs[3])
     ELSE IF start
     THEN start_deployment(name, file_path, rcs[3])
     ELSE <<Echo("updated without starting or restarting", name)>>)

update(name, start, restart, rcs) ==
    /\ cmd' = Cmd("update", name, "", Flags(start, restart))
    /\ IF ConflictingOptions(start, restart)
       THEN /\ exc' = "UsageError"
            /\ log' = <<>>
       ELSE LET deployments == load_deployments
                i == FindDeployment(deployments, name)
            IN
            /\ exc' = "none"
            /\ IF i # 0
               THEN LET file_path == deployments[i].file_path
                        compose_file == get_compose_file_path(file_path)
                    IN  IF compose_file # NoFile
                        THEN log' = <<Load>> \o
                                 update_compose(name, file_path, compose_file,
                                                start, restart, rcs)
                        ELSE log' = <<Load,
                                      Echo("No docker-compose file found", file_path)>>
               ELSE log' = <<Load, Echo("not found", name)>>
    /\ UNCHANGED <<settings, files, pc, local>>

up(name, rc) ==
    LET deployments == load_deployments
        i == FindDeployment(deployments, name)
    IN
    /\ cmd' = Cmd("up", name, "", {})
    /\ exc' = "none"
    /\ log' = <<Load>> \o
              (IF i # 0
               THEN start_deployment(name, deployments[i].file_path, rc)
               ELSE <<Echo("not found", name)>>)
    /\ UNCHANGED <<settings, files, pc, local>>

down(name, rc) ==
    LET deployments == load_deployments
        i == FindDeployment(deployments, name)
    IN
    /\ cmd' = Cmd("down", name, "", {})
    /\ exc' = "none"
    /\ log' = <<Load>> \o
              (IF i # 0
               THEN stop_deployment(name, deployments[i].file_path, rc)
               ELSE <<Echo("not found", name)>>)
    /\ UNCHANGED <<settings, files, pc, local>>

restart(name, rcDown, rcUp) ==
    LET deployments == load_deployments
        i == FindDeployment(deployments, name)
    IN
    /\ cmd' = Cmd("restart", name, "", {})
    /\ exc' = "none"
    /\ log' = <<Load>> \o
              (IF i # 0
               THEN stop_deployment(name, deployments[i].file_path, rcDown) \o
                    start_deployment(name, deployments[i].file_path, rcUp)
               ELSE <<Echo("not found", name)>>)
    /\ UNCHANGED <<settings, files, pc, local>>

----------------------------------------------------------------------------
(* dcg/commands.py: list, status *)

\* Captured standard output is a sequence of characters.
Whitespace == {" ", "\t", "\n", "\r"}

RECURSIVE LStrip(_)
LStrip(s) == IF s # <<>> /\ Head(s) \in Whitespace THEN LStrip(Tail(s)) ELSE s

RECURSIVE RStrip(_)
RStrip(s) ==
    IF s # <<>> /\ s[Len(s)] \in Whitespace
    THEN RStrip(SubSeq(s, 1, Len(s) - 1))
    ELSE s

\* str.strip()
Strip(s) == RStrip(LStrip(s))

\* A variant of CoarseStatus that does not strip the output
CoarseStatusUnstripped(stdout) == IF stdout # <<>> THEN "Up" ELSE "Down"

\* status = "Up" if result.stdout.strip() else "Down"
CoarseStatus(stdout) == IF Strip(stdout) # <<>> THEN "Up" ELSE "Down"

\* What `docker compose ps --quiet` may answer: container ids, one a line; a
\* bare newline; nothing; and nothing with a failure, which prints on standard
\* error.
PsQuietResults ==
    { [rc |-> 0, stdout |-> <<"3", "f", "\n", "9", "a", "\n">>],
      [rc |-> 0, stdout |-> <<"\n">>],
      [rc |-> 0, stdout |-> <<>>],
      [rc |-> 1, stdout |-> <<>>] }

\* `list` runs the query once for each deployment: the answers it is given
ListResults == { r \in PsQuietResults : r.rc = 0 }

Row(name, path, status_) ==
    [kind |-> "row", what |-> status_, arg |-> name, rc |-> 0, path |-> path]

RECURSIVE Flatten(_)
Flatten(ss) == IF ss = <<>> THEN <<>> ELSE Head(ss) \o Flatten(Tail(ss))

\* sorted(deployments, key=lambda x: list(x.keys())[0]): a stable sort by name
NameOrd(name) == CHOOSE i \in 1..Len(AllNames) : AllNames[i] = name

Insert(sorted, d) ==
    LET k == Cardinality({i \in 1..Len(sorted) :
                            NameOrd(sorted[i].name) <= NameOrd(d.name)})
    IN  SubSeq(sorted, 1, k) \o <<d>> \o SubSeq(sorted, k + 1, Len(sorted))

RECURSIVE SortByName(_)
SortByName(ds) ==
    IF ds = <<>> THEN <<>>
    ELSE Insert(SortByName(SubSeq(ds, 1, Len(ds) - 1)), ds[Len(ds)])

\* The status column of one deployment in `list`
ListStatus(d, res) ==
    IF get_compose_file_path(d.file_path) # NoFile
    THEN CoarseStatus(res.stdout)
    ELSE "N/A"

list_deployments(show_file_path, show_raw, results) ==
    LET deployments == load_deployments
        rows == SortByName(deployments)
    IN
    /\ cmd' = Cmd("list", "", "",
                  (IF show_file_path THEN {"show-file-path"} ELSE {}) \cup
                  (IF show_raw THEN {"show-raw"} ELSE {}))
    /\ exc' = "none"
    /\ log' =
         IF show_raw THEN <<Load, Echo("raw", "")>>
         ELSE IF deployments # <<>>
         THEN <<Load>> \o
              Flatten([i \in 1..Len(rows) |->
                  LET compose_file == get_compose_file_path(rows[i].file_path) IN
                  IF compose_file # NoFile
                  THEN <<RunOut("ps --quiet", compose_file, results[i].rc,
                                results[i].stdout)>>
                  ELSE <<>>]) \o
              [i \in 1..Len(rows) |->
                  Row(rows[i].name,
                      IF show_file_path THEN rows[i].file_path ELSE "",
                      ListStatus(rows[i], results[i]))]
         ELSE <<Load, Echo("No deployments found", "")>>
    /\ UNCHANGED <<settings, files, pc, local>>

\* What `docker inspect <container>` may answer: the container's description,
\* or an empty list, the container being gone since `ps` listed it.
InspectKinds == {"ok", "[]"}

\* The exception raised while the answer is parsed (lines 287-297), or "none"
ParseInspect(kind) ==
    CASE kind = "ok" -> "none"
      [] kind = "[]" -> "IndexError"

\* The lines of `docker compose ps`: a header and one line per container,
\* each line as the parts split() gives.
PsLines(k) ==
    <<<<"NAME", "IMAGE", "STATUS">>>> \o
    [i \in 1..k |-> <<AllContainers[i], "image", "running">>]

\* The first container whose inspection raises, 0 when none does
FirstRaise(lines, kinds) ==
    IF \E i \in 1..(Len(lines) - 1) : ParseInspect(kinds[i]) # "none"
    THEN CHOOSE i \in 1..(Len(lines) - 1) :
            /\ ParseInspect(kinds[i]) # "none"
            /\ \A j \in 1..(i - 1) : ParseInspect(kinds[j]) = "none"
    ELSE 0

\* status --list-containers once the manifest is found: its log and exception.
\* lines are the lines of `ps`, kinds the answers of the inspect calls.
status_containers(name, compose_file, rc, lines, kinds) ==
    LET bad == FirstRaise(lines, kinds)
        n == IF Len(lines) > 1
             THEN (IF bad = 0 THEN Len(lines) - 1 ELSE bad)
             ELSE 0
        inspects == [i \in 1..n |-> RunOut("inspect", lines[i + 1][1], 0, kinds[i])]
        nodes == IF Len(lines) > 1
                 THEN [i \in 1..n |-> Echo("container", lines[i + 1][1])]
                 ELSE <<Echo("No containers found", "")>>
    IN  [log |-> <<RunOut("ps", compose_file, rc, lines)>> \o inspects \o
                 (IF bad = 0 \/ Len(lines) <= 1
                  THEN <<Echo("tree", name)>> \o nodes
                  ELSE <<>>),
         exc |-> IF bad = 0 \/ Len(lines) <= 1 THEN "none"
                 ELSE ParseInspect(kinds[bad])]

status(name, list_containers, res, lines, kinds) ==
    LET deployments == load_deployments
        i == FindDeployment(deployments, name)
    IN
    /\ cmd' = Cmd("status", name, "",
                  IF list_containers THEN {"list-containers"} ELSE {})
    /\ IF i # 0
       THEN LET file_path == deployments[i].file_path
                compose_file == get_compose_file_path(file_path)
            IN  IF compose_file # NoFile
                THEN IF list_containers
                     THEN LET r == status_containers(name, compose_file, res.rc,
                                                     lines, kinds)
                          IN  /\ log' = <<Load>> \o r.log
                              /\ exc' = r.exc
                     ELSE /\ log' = <<Load,
                                      RunOut("ps --quiet", compose_file, res.rc,
                                             res.stdout),
                                      Row(name, "", CoarseStatus(res.stdout))>>
                          /\ exc' = "none"
                ELSE /\ log' = <<Load,
                                 Echo("No docker-compose file found", file_path)>>
                     /\ exc' = "none"
       ELSE /\ log' = <<Load, Echo("not found", name)>>
            /\ exc' = "none"
    /\ UNCHANGED <<settings, files, pc, local>>

----------------------------------------------------------------------------
(* dcg/commands.py: stop-all, start-all, statistics *)

\* load_deployments returns the list under 'deployments' (or []), and a list
\* has neither items() nor values(): the call raises AttributeError.
ListAttribute(deployments, attr) == "AttributeError"

stop_all(force, answer) ==
    /\ cmd' = Cmd("stop-all", "", "",
                  (IF force THEN {"force"} ELSE {}) \cup
                  (IF ~force /\ answer THEN {"confirmed"} ELSE {}))
    /\ IF force \/ answer
       THEN /\ log' = <<Load>>
            /\ exc' = ListAttribute(load_deployments, "items")
       ELSE /\ log' = <<Echo("Action canceled.", "")>>
            /\ exc' = "none"
    /\ UNCHANGED <<settings, files, pc, local>>

start_all(force, answer) ==
    /\ cmd' = Cmd("start-all", "", "",
                  (IF force THEN {"force"} ELSE {}) \cup
                  (IF ~force /\ answer THEN {"confirmed"} ELSE {}))
    /\ IF force \/ answer
       THEN /\ log' = <<Load>>
            /\ exc' = ListAttribute(load_deployments, "items")
       ELSE /\ log' = <<Echo("Action canceled.", "")>>
            /\ exc' = "none"
    /\ UNCHANGED <<settings, files, pc, local>>

statistics(key) ==
    /\ cmd' = Cmd("statistics", key, "", {})
    /\ log' = <<Load>>
    /\ exc' = ListAttribute(load_deployments, "values")
    /\ UNCHANGED <<settings, files, pc, local>>

----------------------------------------------------------------------------

Init ==
    /\ settings = [exists |-> FALSE, deployments |-> <<>>]
    /\ files \in [Dirs -> SUBSET {"docker-compose.yaml", "docker-compose.yml"}]
    /\ cmd = [op |-> "", name |-> "", file_path |-> "", flags |-> {}]
    /\ log = <<>>
    /\ exc = "none"
    /\ pc = [p \in Procs |-> "idle"]
    /\ local = [p \in Procs |-> [op |-> "", name |-> "", file_path |-> "",
                                 deployments |-> <<>>]]

\* The shell is at its prompt: no invocation is running.
NoCmd == Cmd("", "", "", {})
AtPrompt == cmd = NoCmd

Add ==
    /\ AtPrompt
    /\ \E name \in Names, file_path \in Dirs, start \in BOOLEAN :
        \E rc \in (IF start THEN ExitCodes ELSE {0}) :
            add(name, file_path, start, rc)

Remove ==
    /\ AtPrompt
    /\ \E name \in Names, stop \in BOOLEAN :
        \E rc \in (IF stop THEN ExitCodes ELSE {0}) :
            remove(name, stop, rc)

\* The exit statuses of pull, down and up -d, for the calls the options lead to
UpdateExitCodes(start, restart_) ==
    { rcs \in [1..3 -> ExitCodes] :
        /\ (start /\ restart_) => rcs[1] = 0
        /\ ~(restart_ /\ ~start) => rcs[2] = 0
        /\ ~(start \/ restart_) \/ (start /\ restart_) => rcs[3] = 0 }

Update ==
    /\ AtPrompt
    /\ \E name \in Names, start \in BOOLEAN, restart_ \in BOOLEAN :
        \E rcs \in UpdateExitCodes(start, restart_) :
            update(name, start, restart_, rcs)

Up == AtPrompt /\ \E name \in Names, rc \in ExitCodes : up(name, rc)

Down == AtPrompt /\ \E name \in Names, rc \in ExitCodes : down(name, rc)

Restart ==
    /\ AtPrompt
    /\ \E name \in Names, rcDown \in ExitCodes, rcUp \in ExitCodes :
            restart(name, rcDown, rcUp)

List ==
    /\ AtPrompt
    /\ \E show_file_path \in BOOLEAN, show_raw \in BOOLEAN :
        \E results \in (IF show_raw
                        THEN {[i \in 1..Len(load_deployments) |->
                                  [rc |-> 0, stdout |-> <<>>]]}
                        ELSE [1..Len(load_deployments) -> ListResults]) :
            list_deployments(show_file_path, show_raw, results)

\* `docker compose ps` prints the header and the containers' lines, or, when it
\* fails, nothing on standard output.
Status ==
    /\ AtPrompt
    /\ \E name \in Names :
        \/ \E res \in PsQuietResults : status(name, FALSE, res, <<>>, <<>>)
        \/ status(name, TRUE, [rc |-> 1, stdout |-> <<>>], <<>>, <<>>)
        \/ \E k \in 0..MaxContainers : \E kinds \in [1..k -> InspectKinds] :
              status(name, TRUE, [rc |-> 0, stdout |-> <<>>], PsLines(k), kinds)

StopAll == AtPrompt /\ \E force \in BOOLEAN, answer \in BOOLEAN : stop_all(force, answer)

StartAll == AtPrompt /\ \E force \in BOOLEAN, answer \in BOOLEAN : start_all(force, answer)

Statistics ==
    /\ AtPrompt
    /\ \E key \in {"", "Deployments", "Images Used", "Services"} : statistics(key)

\* The invocation's process exits: of what it did, the settings file remains.
Exit ==
    /\ ~AtPrompt
    /\ cmd' = NoCmd
    /\ log' = <<>>
    /\ exc' = "none"
    /\ UNCHANGED <<settings, files, pc, local>>

Next ==
    \/ Add
    \/ Remove
    \/ Update
    \/ Up
    \/ Down
    \/ Restart
    \/ List
    \/ Status
    \/ StopAll
    \/ StartAll
    \/ Statistics
    \/ Exit

Spec == Init /\ [][Next]_vars

----------------------------------------------------------------------------
(* Two invocations of add or remove racing on the settings file.  Each is a  *)
(* process of its own: it loads the registry, changes the list it loaded,    *)
(* and rewrites the file; nothing locks the file in between.  The load and   *)
(* the save are each one step.  The external calls of --start and --stop     *)
(* touch neither the loaded list nor the file, and are left out.             *)

Records == {Deployment(n, d) : n \in Names, d \in Dirs}

\* The registries add and remove lead to: lists of records of distinct names
Registries ==
    { r \in UNION {[1..k -> Records] : k \in 0..NumNames} :
        \A i, j \in 1..Len(r) : r[i].name = r[j].name => i = j }

InitConc ==
    /\ settings \in {[exists |-> FALSE, deployments |-> <<>>]} \cup
                    {[exists |-> TRUE, deployments |-> r] : r \in Registries}
    /\ files = [d \in Dirs |-> {}]
    /\ cmd = [op |-> "", name |-> "", file_path |-> "", flags |-> {}]
    /\ log = <<>>
    /\ exc = "none"
    /\ pc = [p \in Procs |-> "idle"]
    /\ local = [p \in Procs |-> [op |-> "", name |-> "", file_path |-> "",
                                 deployments |-> <<>>]]

\* lines 24 and 46: deployments = load_deployments()
ConcLoad(p) ==
    /\ pc[p] = "idle"
    /\ \E op \in {"add", "remove"}, name \in Names :
        \E file_path \in (IF op = "add" THEN Dirs ELSE {""}) :
            local' = [local EXCEPT ![p] =
                        [op |-> op, name |-> name, file_path |-> file_path,
                         deployments |-> load_deployments]]
    /\ pc' = [pc EXCEPT ![p] = "loaded"]
    /\ UNCHANGED <<settings, files, cmd, log, exc>>

\* lines 25-29 and 49-60: the change of the loaded list, and the save
ConcSave(p) ==
    LET deployments == local[p].deployments
        name == local[p].name
        i == FindDeployment(deployments, name)
    IN
    /\ pc[p] = "loaded"
    /\ IF local[p].op = "add"
       THEN IF AddExists(deployments, name)
            THEN settings' = settings
            ELSE settings' = save_deployments(
                    Append(deployments, Deployment(name, local[p].file_path)))
       ELSE IF i # 0
            THEN settings' = save_deployments(
                    ListRemove(deployments, deployments[i]))
            ELSE settings' = settings
    /\ pc' = [pc EXCEPT ![p] = "done"]
    /\ UNCHANGED <<files, cmd, log, exc, local>>

Load_p == ConcLoad("p")
Save_p == ConcSave("p")
Load_q == ConcLoad("q")
Save_q == ConcSave("q")

NextConc ==
    \/ Load_p
    \/ Save_p
    \/ Load_q
    \/ Save_q

SpecConc == InitConc /\ [][NextConc]_vars

\* The commands that write the registry
NextRegistry ==
    \/ Add
    \/ Remove
    \/ Exit

SpecRegistry == Init /\ [][NextRegistry]_vars

\* With them, the commands that start, stop and update deployments
NextLifecycle ==
    \/ Add
    \/ Remove
    \/ Update
    \/ Up
    \/ Down
    \/ Restart
    \/ StopAll
    \/ StartAll
    \/ Exit

SpecLifecycle == Init /\ [][NextLifecycle]_vars

\* With them, the commands that report
NextStatus ==
    \/ Add
    \/ Remove
    \/ List
    \/ Status
    \/ Statistics
    \/ Exit

SpecStatus == Init /\ [][NextStatus]_vars

----------------------------------------------------------------------------
(* The registry: add and remove *)

\* The deployments named `name` in a list
Named(ds, name) == {i \in 1..Len(ds) : ds[i].name = name}

UniqueNames(ds) ==
    \A i, j \in 1..Len(ds) : ds[i].name = ds[j].name => i = j

\* The place of the first entry of a log that satisfies Test, 0 when none does
FirstAt(l, Test(_)) ==
    IF \E i \in 1..Len(l) : Test(l[i])
    THEN CHOOSE i \in 1..Len(l) : Test(l[i]) /\ \A j \in 1..(i-1) : ~Test(l[j])
    ELSE 0

\* C1: add of a name the loaded registry already holds leaves the settings
\* file as it was, saves nothing, says 'already exists' and starts nothing,
\* --start or not; add of a name it does not hold appends exactly the record
\* {name, path} and saves once. Hence no two records ever share a name.
C1_AddKeepsNamesUnique ==
    /\ [](UniqueNames(settings.deployments))
    /\ [][ (AtPrompt /\ cmd'.op = "add") =>
             LET before == load_deployments IN
             IF Named(before, cmd'.name) # {}
             THEN /\ settings' = settings
                  /\ Count(log', "save") = 0
                  /\ Has(log', Echo("already exists", cmd'.name))
                  /\ Runs(log') = <<>>
                  /\ ~Has(log', Echo("Attempting to start", cmd'.name))
             ELSE /\ settings'.exists
                  /\ settings'.deployments =
                        Append(before, Deployment(cmd'.name, cmd'.file_path))
                  /\ Count(log', "save") = 1
                  /\ Has(log', Echo("added", cmd'.name)) ]_vars

\* add --start of a registered name under another directory, which holds a
\* manifest, was refused
C1_Witness ==
    /\ cmd.op = "add" /\ "start" \in cmd.flags
    /\ Has(log, Echo("already exists", cmd.name))
    /\ get_compose_file_path(cmd.file_path) # NoFile
    /\ Len(settings.deployments) = 2
    /\ \E i \in Named(settings.deployments, cmd.name) :
          settings.deployments[i].file_path # cmd.file_path

\* C5: remove --stop of a registered name attempts the stop before the
\* settings file is written, and removes the record whatever the stop did:
\* the `down` call ran and exited with any status, or no manifest was found.
\* The record of that name, and no other, is gone from the saved registry.
C5_RemoveAfterStopAttempt ==
    [][ (AtPrompt /\ cmd'.op = "remove" /\ "stop" \in cmd'.flags
           /\ Named(load_deployments, cmd'.name) # {}) =>
          LET before == load_deployments
              i == CHOOSE i \in Named(before, cmd'.name) :
                       \A j \in Named(before, cmd'.name) : i <= j
              compose_file == get_compose_file_path(before[i].file_path)
              stopAt == FirstAt(log', LAMBDA e :
                           IF compose_file # NoFile
                           THEN e.kind = "run" /\ e.what = "down"
                                /\ e.arg = compose_file
                           ELSE e = Echo("No docker-compose file found",
                                         before[i].file_path))
              saveAt == FirstAt(log', LAMBDA e : e = Save)
          IN  /\ exc' = "none"
              /\ stopAt # 0 /\ saveAt # 0 /\ stopAt < saveAt
              /\ Count(log', "save") = 1
              /\ Len(Runs(log')) = (IF compose_file # NoFile THEN 1 ELSE 0)
              /\ settings'.exists
              /\ Len(settings'.deployments) = Len(before) - 1
              /\ \A k \in 1..(Len(before) - 1) :
                    settings'.deployments[k] =
                        (IF k < i THEN before[k] ELSE before[k + 1])
              /\ Has(log', Echo("removed", cmd'.name)) ]_vars

\* remove --stop whose `down` exited non-zero removed the record and left the
\* other one
C5_Witness ==
    /\ cmd.op = "remove" /\ "stop" \in cmd.flags
    /\ \E i \in 1..Len(log) :
          log[i].kind = "run" /\ log[i].what = "down" /\ log[i].rc = 1
    /\ Has(log, Save)
    /\ Named(settings.deployments, cmd.name) = {}
    /\ Len(settings.deployments) = 1

\* C6: remove of a name no record has leaves the settings file as it was,
\* saves nothing, stops nothing, --stop or not, and says 'not found'.
C6_RemoveUnknownName ==
    [][ (AtPrompt /\ cmd'.op = "remove"
           /\ Named(load_deployments, cmd'.name) = {}) =>
          /\ settings' = settings
          /\ Count(log', "save") = 0
          /\ Runs(log') = <<>>
          /\ Has(log', Echo("not found", cmd'.name))
          /\ exc' = "none" ]_vars

\* remove --stop of an unknown name, with a deployment registered whose manifest
\* is there
C6_Witness ==
    /\ cmd.op = "remove" /\ "stop" \in cmd.flags
    /\ Has(log, Echo("not found", cmd.name))
    /\ Len(settings.deployments) = 1
    /\ get_compose_file_path(settings.deployments[1].file_path) # NoFile

----------------------------------------------------------------------------
(* update, stop-all, start-all *)

\* C3: update with --start and --restart together fails with a usage error
\* before anything else: the registry is not loaded, no external process is
\* run, nothing is saved and the settings file is as it was.
C3_UpdateConflictFirst ==
    [][ (AtPrompt /\ cmd'.op = "update"
           /\ {"start", "restart"} \subseteq cmd'.flags) =>
          /\ exc' = "UsageError"
          /\ Count(log', "load") = 0
          /\ Runs(log') = <<>>
          /\ Count(log', "save") = 0
          /\ settings' = settings ]_vars

\* update --start --restart of a registered deployment whose manifest is there
C3_Witness ==
    /\ cmd.op = "update" /\ cmd.flags = {"start", "restart"}
    /\ exc = "UsageError"
    /\ \E i \in Named(settings.deployments, cmd.name) :
          get_compose_file_path(settings.deployments[i].file_path) # NoFile

\* C4: update of a registered deployment whose manifest is found, without
\* conflicting options, runs pull first, whatever the option and whatever
\* pull's exit status, and then down and up -d (--restart), up -d (--start),
\* or nothing more; all on the deployment's manifest. When the name is not
\* registered or no manifest is found, update runs no external process.
C4_UpdatePullsFirst ==
    (cmd.op = "update" /\ ~({"start", "restart"} \subseteq cmd.flags)) =>
        LET ds == settings.deployments
            found == Named(ds, cmd.name) # {}
            i == CHOOSE i \in Named(ds, cmd.name) :
                    \A j \in Named(ds, cmd.name) : i <= j
        IN  IF found /\ files[ds[i].file_path] # {}
            THEN /\ Verbs(log) =
                      (IF "restart" \in cmd.flags THEN <<"pull", "down", "up -d">>
                       ELSE IF "start" \in cmd.flags THEN <<"pull", "up -d">>
                       ELSE <<"pull">>)
                 /\ \A k \in 1..Len(Runs(log)) :
                       Runs(log)[k].arg = get_compose_file_path(ds[i].file_path)
                 /\ exc = "none"
            ELSE Runs(log) = <<>>

\* update --restart whose pull exited non-zero went on to down and up -d
C4_Witness ==
    /\ cmd.op = "update" /\ cmd.flags = {"restart"}
    /\ Len(Runs(log)) = 3
    /\ Runs(log)[1].what = "pull" /\ Runs(log)[1].rc = 1
    /\ Runs(log)[3].what = "up -d"

\* The attempt to stop or start a deployment: the external call on its
\* manifest, or the report that its directory holds none
Attempted(verb, d) ==
    LET compose_file == get_compose_file_path(d.file_path) IN
    IF compose_file # NoFile
    THEN \E k \in 1..Len(log) :
            log[k].kind = "run" /\ log[k].what = verb /\ log[k].arg = compose_file
    ELSE Has(log, Echo("No docker-compose file found", d.file_path))

\* C2: stop-all and start-all without --force and with the confirmation
\* declined run nothing and print 'Action canceled.'; with --force or the
\* confirmation given they attempt the stop (the start) of every record of the
\* registry, a failure on one not preventing the attempt on the others.
C2_AllVisitEveryRecord ==
    (cmd.op \in {"stop-all", "start-all"}) =>
        IF cmd.flags = {}
        THEN Runs(log) = <<>> /\ Has(log, Echo("Action canceled.", ""))
        ELSE \A i \in 1..Len(settings.deployments) :
                Attempted(IF cmd.op = "stop-all" THEN "down" ELSE "up -d",
                          settings.deployments[i])

----------------------------------------------------------------------------
(* list, status, statistics *)

Rows(l) == SelectSeq(l, LAMBDA e : e.kind = "row")

\* The record of a registered name
RecordOf(name) ==
    settings.deployments[CHOOSE i \in Named(settings.deployments, name) : TRUE]

HasManifest(name) == files[RecordOf(name).file_path] # {}

\* The output holds a character that is not white space
NonBlank(stdout) == \E i \in 1..Len(stdout) : stdout[i] \notin Whitespace

\* C8: the status shown for a deployment is Up exactly when the `ps --quiet`
\* query on its manifest printed container identifiers, Down when it printed
\* nothing; when its directory holds no manifest no query is run and neither
\* Up nor Down is shown (`list` shows N/A, `status` reports that no manifest
\* was found). This holds for status and for list.
C8_CoarseStatus ==
    /\ (cmd.op = "status" /\ cmd.flags = {}
          /\ Named(settings.deployments, cmd.name) # {}) =>
         IF HasManifest(cmd.name)
         THEN /\ Len(Runs(log)) = 1 /\ Len(Rows(log)) = 1
              /\ Runs(log)[1].what = "ps --quiet"
              /\ Runs(log)[1].arg =
                    get_compose_file_path(RecordOf(cmd.name).file_path)
              /\ Rows(log)[1].arg = cmd.name
              /\ Rows(log)[1].what =
                    (IF NonBlank(Runs(log)[1].stdout) THEN "Up" ELSE "Down")
         ELSE /\ Runs(log) = <<>> /\ Rows(log) = <<>>
              /\ Has(log, Echo("No docker-compose file found",
                               RecordOf(cmd.name).file_path))
    /\ (cmd.op = "list" /\ "show-raw" \notin cmd.flags) =>
         LET rows == Rows(log)
             queried == SelectSeq(rows, LAMBDA r : HasManifest(r.arg))
         IN  /\ Len(rows) = Len(settings.deployments)
             /\ \A i \in 1..Len(settings.deployments) :
                   \E k \in 1..Len(rows) : rows[k].arg = settings.deployments[i].name
             /\ \A k \in 1..Len(rows) :
                   ~HasManifest(rows[k].arg) => rows[k].what = "N/A"
             /\ Len(Runs(log)) = Len(queried)
             /\ \A j \in 1..Len(queried) :
                   /\ Runs(log)[j].what = "ps --quiet"
                   /\ Runs(log)[j].arg =
                         get_compose_file_path(RecordOf(queried[j].arg).file_path)
                   /\ queried[j].what =
                         (IF NonBlank(Runs(log)[j].stdout) THEN "Up" ELSE "Down")

\* list showed one deployment without manifest, and one Down whose query
\* printed a bare newline
C8_Witness ==
    /\ cmd.op = "list" /\ "show-raw" \notin cmd.flags
    /\ \E k \in 1..Len(Rows(log)) : Rows(log)[k].what = "N/A"
    /\ \E k \in 1..Len(Rows(log)) : Rows(log)[k].what = "Down"
    /\ Len(Runs(log)) = 1 /\ Runs(log)[1].stdout = <<"\n">>

\* C7: in status --list-containers, a failure to parse the inspection of one
\* container does not end the listing: every container listed after the
\* header row is inspected, and every one whose inspection parses is reported.
C7_DetailToleratesParseFailure ==
    (cmd.op = "status" /\ "list-containers" \in cmd.flags /\ Runs(log) # <<>>) =>
        LET lines == Runs(log)[1].stdout IN
        \A i \in 2..Len(lines) :
            \E k \in 1..Len(log) :
                /\ log[k].kind = "run" /\ log[k].what = "inspect"
                /\ log[k].arg = lines[i][1]
                /\ log[k].stdout = "ok" => Has(log, Echo("container", lines[i][1]))

\* The service entries of the manifest found in a directory: in the model's
\* filesystem a docker-compose.yaml defines two services, a docker-compose.yml
\* one.
ServiceEntries(file_path) ==
    IF "docker-compose.yaml" \in files[file_path] THEN 2
    ELSE IF "docker-compose.yml" \in files[file_path] THEN 1
    ELSE 0

RECURSIVE TotalServices(_)
TotalServices(ds) ==
    IF ds = <<>> THEN 0
    ELSE ServiceEntries(Head(ds).file_path) + TotalServices(Tail(ds))

\* A line of the statistics table
Stat(key, value) == [kind |-> "stat", what |-> key, arg |-> value, rc |-> 0]

\* C9: statistics reports the number of records as the deployment count and
\* the sum, over the records, of the service entries of the record's manifest,
\* a record without manifest counting for zero and raising no error.
C9_StatisticsCounts ==
    (cmd.op = "statistics" /\ cmd.name = "") =>
        /\ exc = "none"
        /\ Has(log, Stat("Deployments", Len(settings.deployments)))
        /\ Has(log, Stat("Images Used", TotalServices(settings.deployments)))

----------------------------------------------------------------------------
(* Racing invocations *)

\* C10: whatever the interleaving of two racing add or remove invocations on
\* a registry of distinct names, every registry written has distinct names.
C10_RaceKeepsNamesUnique == UniqueNames(settings.deployments)

\* Both invocations added a name that was not registered, each saved, and the
\* file holds one of the two records: an update is lost, no name is doubled
C10_Witness ==
    /\ \A p \in Procs : pc[p] = "done" /\ local[p].op = "add"
    /\ local["p"].name # local["q"].name
    /\ \A p \in Procs : Named(local[p].deployments, local[p].name) = {}
    /\ local["p"].deployments = local["q"].deployments
    /\ Len(settings.deployments) = Len(local["p"].deployments) + 1

====
